---------------------------- MODULE Spec2Model ----------------------------
(***************************************************************************)
(* A model of Donet's wire and schema-hash core:                           *)
(*   - the Datagram builder of src/src/datagram.rs,                        *)
(*   - the PrimeNumberGenerator and the DCHashGenerator of                 *)
(*     src/donet-core/src/hashgen.rs, and                                  *)
(*   - the DC file parser of src/libdonet/src/dcparser.rs, and             *)
(*   - read_dc_files of src/libdonet/src/lib.rs.                           *)
(* Each public method is one action; the private helpers are operators     *)
(* that compute what the Rust code computes.                               *)
(***************************************************************************)
EXTENDS Integers, Sequences, FiniteSets, TLC

VARIABLES
    buffer,     \* Datagram.buffer : Vec<u8>, held as runs of equal bytes
    last,       \* the last Datagram call: [op, res, len (length before), n]
    arg,        \* the argument of the last Datagram call
    ops,        \* number of Datagram calls made so far
    primes,     \* PrimeNumberGenerator.primes : Vec<u16>
    call,       \* the last get_prime call: [n, res, ret (the value returned)]
    overflow_checks, \* the build: TRUE when integer overflow panics (debug)
    gens,       \* two DCHashGenerators: [hash, index, primes, res] each
    fed,        \* the calls made on each generator, in order: [op, arg],
                \* arg being the bytes given, or <<number>> for add_int
    feeds,      \* number of calls made on the generators so far
    fed0,       \* number of contributions made before the first state
    hashed,     \* the last get_hash call: [g (which generator), ret]
    DC_FILE,    \* static mut DC_FILE: its vector of imports, as the slots
                \* written so far and the vector's length [imports, len]
    parsers,    \* the parse calls, one per thread: where each has got to
    threads,    \* the threads that call parse
    reads       \* the read_dc_files calls made, in order: [paths, out]

dgVars == <<buffer, last, arg, ops>>
pgVars == <<primes, call, overflow_checks>>
hgVars == <<gens, fed, feeds, fed0, hashed>>
psVars == <<DC_FILE, parsers, threads, reads>>
vars == <<buffer, last, arg, ops, primes, call, overflow_checks,
          gens, fed, feeds, fed0, hashed, DC_FILE, parsers, threads, reads>>

---------------------------------------------------------------------------
(* Bounds of the model. *)

\* Datagram calls made on one datagram.
MaxOps == 3

\* get_prime is called with every index up to MaxIndex, in any order.
MaxIndex == 10

\* A get_prime call asks for fewer than MaxStep entries past the cache.
MaxStep == 3

\* Calls made on the two hash generators together, when they start fresh.
MaxFeeds == 3

\* Calls made on the two hash generators together, when they start with
\* their index one step before MAX_PRIME_NUMBERS.
MaxWarmFeeds == 2

\* read_dc_files is called at most MaxReads times.
MaxReads == 2

---------------------------------------------------------------------------
(* Fixed-width integers as bit vectors: a w-bit value is a function        *)
(* 0..w-1 -> {0,1}, bit i having weight 2^i.  (TLC's integers are 32-bit,  *)
(* so u32 and u64 values are never held as one integer.)                   *)

Pow2(k) == 2 ^ k

\* The w-bit two's complement pattern of the integer v (|v| < 2^31): for
\* v >= 0 this is `v as uW' of a narrower unsigned, for v < 0 it is the
\* sign-extending cast `v as uW' of a signed integer.
BvOfInt(v, w) ==
    [i \in 0..(w - 1) |->
        IF i >= 31 THEN (IF v < 0 THEN 1 ELSE 0) ELSE (v \div Pow2(i)) % 2]

\* A literal written as bytes, most significant first: 0x01020304 is
\* <<1, 2, 3, 4>>.
BvOfBytes(bs) ==
    [i \in 0..(8 * Len(bs) - 1) |-> (bs[Len(bs) - (i \div 8)] \div Pow2(i % 8)) % 2]

BvAnd(a, b) == [i \in DOMAIN a |-> a[i] * b[i]]

\* a << k on a value of a's width: bits shifted past the top are dropped.
BvShl(a, k) == [i \in DOMAIN a |-> IF i >= k THEN a[i - k] ELSE 0]

\* `a as u8': the low eight bits.
AsU8(a) ==
    a[0] + 2 * a[1] + 4 * a[2] + 8 * a[3]
         + 16 * a[4] + 32 * a[5] + 64 * a[6] + 128 * a[7]

\* (v >> 8k) & 0xff, the byte a little-endian encoding puts at offset k.
LeByte(v, k) ==
    v[8 * k] + 2 * v[8 * k + 1] + 4 * v[8 * k + 2] + 8 * v[8 * k + 3]
        + 16 * v[8 * k + 4] + 32 * v[8 * k + 5] + 64 * v[8 * k + 6]
        + 128 * v[8 * k + 7]

\* `f as uW' for a float f: NaN gives 0, the value is truncated toward zero
\* and saturates at 0 and at the type's maximum.  A finite float is held as
\* its number of halves (3 is 1.5).
FloatAsUnsigned(f, w) ==
    CASE f.kind = "nan" -> BvOfInt(0, w)
      [] f.kind = "inf" -> [i \in 0..(w - 1) |-> 1]
      [] f.kind = "-inf" -> BvOfInt(0, w)
      [] OTHER -> IF f.halves < 0 THEN BvOfInt(0, w)
                  ELSE BvOfInt(f.halves \div 2, w)

---------------------------------------------------------------------------
(* Vec<u8>.  A datagram holds up to 65535 bytes, so a vector is held as its *)
(* runs of equal bytes: a sequence of <<byte, count>> with every count > 0   *)
(* and neighbouring runs of different bytes.  Each byte vector has exactly   *)
(* one such form, so two vectors are equal iff their forms are.              *)

RECURSIVE VecLen(_)
\* v.len()
VecLen(v) == IF v = <<>> THEN 0 ELSE v[1][2] + VecLen(Tail(v))

\* v with k more bytes b at its end.
PushRun(v, b, k) ==
    IF k = 0 THEN v
    ELSE IF v /= <<>> /\ v[Len(v)][1] = b
         THEN [v EXCEPT ![Len(v)] = <<b, @[2] + k>>]
         ELSE Append(v, <<b, k>>)

\* v.push(b)
Push(v, b) == PushRun(v, b, 1)

RECURSIVE Extend(_, _)
\* v.append(&mut w)
Extend(v, w) ==
    IF w = <<>> THEN v ELSE Extend(PushRun(v, w[1][1], w[1][2]), Tail(w))

RECURSIVE ByteAt(_, _)
\* v[i - 1]: the i-th byte, counting from 1.
ByteAt(v, i) == IF i <= v[1][2] THEN v[1][1] ELSE ByteAt(Tail(v), i - v[1][2])

RECURSIVE VecOf(_)
\* The vector of the bytes listed in bs.
VecOf(bs) ==
    IF bs = <<>> THEN <<>>
    ELSE Push(VecOf(SubSeq(bs, 1, Len(bs) - 1)), bs[Len(bs)])

\* The vector of k bytes b.
Fill(k, b) == PushRun(<<>>, b, k)

---------------------------------------------------------------------------
(* src/src/datagram.rs *)

DG_SIZE_MAX == 65535

Ok == "Ok"
DatagramOverflow == "DatagramOverflow"
\* A failed unwrap(): the thread panics.
Panic == "panic"

Result(buf, res) == [buffer |-> buf, res |-> res]

new == << >>

\* endianness::swap_le_16 / 32 / 64 on a little-endian target.
swap_le(v) == v

\* Mutants of check_add_length: an off-by-one cap, and a check that forgets
\* the bytes about to be added.
check_add_length_ge(buf, length) ==
    IF VecLen(buf) + length >= DG_SIZE_MAX THEN DatagramOverflow ELSE Ok

check_add_length_nolen(buf, length) ==
    IF VecLen(buf) > DG_SIZE_MAX THEN DatagramOverflow ELSE Ok

check_add_length(buf, length) ==
    IF VecLen(buf) + length > DG_SIZE_MAX THEN DatagramOverflow ELSE Ok

add_u8(buf, v) ==
    IF check_add_length(buf, 1) /= Ok
    THEN Result(buf, DatagramOverflow)
    ELSE Result(Push(buf, v), Ok)

add_bool(buf, v) ==
    IF check_add_length(buf, 1) /= Ok
    THEN Result(buf, DatagramOverflow)
    ELSE IF v THEN add_u8(buf, 1) ELSE add_u8(buf, 0)

add_u16(buf, v0) ==
    IF check_add_length(buf, 2) /= Ok
    THEN Result(buf, DatagramOverflow)
    ELSE LET v == swap_le(v0)
             b1 == AsU8(BvAnd(v, BvOfBytes(<<255, 0>>)))
             b2 == AsU8(BvShl(BvAnd(v, BvOfBytes(<<0, 255>>)), 8))
         IN  Result(Push(Push(buf, b1), b2), Ok)

add_u32(buf, v0) ==
    IF check_add_length(buf, 4) /= Ok
    THEN Result(buf, DatagramOverflow)
    ELSE LET v == swap_le(v0)
             b1 == AsU8(BvAnd(v, BvOfBytes(<<255, 0, 0, 0>>)))
             b2 == AsU8(BvShl(BvAnd(v, BvOfBytes(<<0, 255, 0, 0>>)), 8))
             b3 == AsU8(BvShl(BvAnd(v, BvOfBytes(<<0, 0, 255, 0>>)), 16))
             b4 == AsU8(BvShl(BvAnd(v, BvOfBytes(<<0, 0, 0, 255>>)), 24))
         IN  Result(Push(Push(Push(Push(buf, b1), b2), b3), b4), Ok)

add_u64(buf, v0) ==
    IF check_add_length(buf, 8) /= Ok
    THEN Result(buf, DatagramOverflow)
    ELSE LET v == swap_le(v0)
             b1 == AsU8(BvAnd(v, BvOfBytes(<<255, 0, 0, 0, 0, 0, 0, 0>>)))
             b2 == AsU8(BvShl(BvAnd(v, BvOfBytes(<<0, 255, 0, 0, 0, 0, 0, 0>>)), 8))
             b3 == AsU8(BvShl(BvAnd(v, BvOfBytes(<<0, 0, 255, 0, 0, 0, 0, 0>>)), 16))
             b4 == AsU8(BvShl(BvAnd(v, BvOfBytes(<<0, 0, 0, 255, 0, 0, 0, 0>>)), 24))
             b5 == AsU8(BvShl(BvAnd(v, BvOfBytes(<<0, 0, 0, 0, 255, 0, 0, 0>>)), 32))
             b6 == AsU8(BvShl(BvAnd(v, BvOfBytes(<<0, 0, 0, 0, 0, 255, 0, 0>>)), 40))
             b7 == AsU8(BvShl(BvAnd(v, BvOfBytes(<<0, 0, 0, 0, 0, 0, 255, 0>>)), 48))
             b8 == AsU8(BvShl(BvAnd(v, BvOfBytes(<<0, 0, 0, 0, 0, 0, 0, 255>>)), 56))
         IN  Result(Push(Push(Push(Push(Push(Push(Push(Push(buf,
                 b1), b2), b3), b4), b5), b6), b7), b8), Ok)

\* v as u8 of an i8.
add_i8(buf, v) == add_u8(buf, v % 256)

add_i16(buf, v) == add_u16(buf, BvOfInt(v, 16))

add_i32(buf, v) == add_u32(buf, BvOfInt(v, 32))

add_i64(buf, v) == add_u64(buf, BvOfInt(v, 64))

add_f32(buf, v) == add_u32(buf, FloatAsUnsigned(v, 32))

add_f64(buf, v) == add_u64(buf, FloatAsUnsigned(v, 64))

add_size(buf, v) == add_u16(buf, v)

add_channel(buf, v) == add_u64(buf, v)

add_doid(buf, v) == add_u32(buf, v)

add_zone(buf, v) == add_u32(buf, v)

add_location(buf, parent, zone) ==
    LET r == add_u32(buf, parent)
    IN  IF r.res /= Ok THEN r ELSE add_u32(r.buffer, zone)

\* The mutant of add_data that gives the caller an empty datagram to retry
\* with when the bytes do not fit.
add_data_reset_on_overflow(buf, v) ==
    IF VecLen(v) > DG_SIZE_MAX
    THEN Result(buf, DatagramOverflow)
    ELSE IF check_add_length(buf, VecLen(v)) /= Ok
         THEN Result(new, DatagramOverflow)
         ELSE Result(Extend(buf, v), Ok)

add_data(buf, v) ==
    IF VecLen(v) > DG_SIZE_MAX
    THEN Result(buf, DatagramOverflow)
    ELSE IF check_add_length(buf, VecLen(v)) /= Ok
         THEN Result(buf, DatagramOverflow)
         ELSE Result(Extend(buf, v), Ok)

\* dg is the other datagram's buffer.
add_datagram(buf, dg) ==
    IF VecLen(dg) > DG_SIZE_MAX
    THEN Result(buf, DatagramOverflow)
    ELSE IF check_add_length(buf, VecLen(dg)) /= Ok
         THEN Result(buf, DatagramOverflow)
         ELSE Result(Extend(buf, dg), Ok)

\* v is the string's UTF-8 bytes; v.len() counts bytes.
add_string(buf, v) ==
    IF VecLen(v) > DG_SIZE_MAX
    THEN Result(buf, DatagramOverflow)
    ELSE LET r == add_u16(buf, BvOfInt(VecLen(v), 16))
         IN  IF r.res /= Ok
             THEN r
             ELSE IF check_add_length(r.buffer, VecLen(v)) /= Ok
                  THEN Result(r.buffer, DatagramOverflow)
                  ELSE Result(r.buffer, Ok)

\* Mutant of add_blob: the tag is written and the payload is not.
add_blob_tag_only(buf, v) == add_string(buf, v)

\* v.len().try_into().unwrap() panics when the length is no u16.
add_blob(buf, v) ==
    IF VecLen(v) > DG_SIZE_MAX
    THEN Result(buf, Panic)
    ELSE LET r == add_size(buf, BvOfInt(VecLen(v), 16))
         IN  IF r.res /= Ok
             THEN r
             ELSE IF check_add_length(r.buffer, VecLen(v)) /= Ok
                  THEN Result(r.buffer, DatagramOverflow)
                  ELSE Result(Extend(r.buffer, v), Ok)

---------------------------------------------------------------------------
(* src/donet-core/src/hashgen.rs: PrimeNumberGenerator *)

\* u16::MAX
U16_MAX == 65535

\* PrimeNumberGenerator::default()
default == <<2>>

\* u16 arithmetic.  An operation whose exact result is past u16::MAX
\* overflows: with overflow checks (a debug build) it panics, without them
\* (a release build) the result wraps modulo 2^16.  The build decides, not
\* the code.  The wrapped product is computed from the operands' bytes, its
\* exact value being too wide for the checker's integers.
AddOverflows(x, y) == x + y > U16_MAX
WrappingAdd(x, y) == (x + y) % (U16_MAX + 1)
MulOverflows(x, y) == x /= 0 /\ y > U16_MAX \div x
WrappingMul(x, y) ==
    ((((x \div 256) * (y % 256) + (x % 256) * (y \div 256)) % 256) * 256
        + (x % 256) * (y % 256)) % (U16_MAX + 1)

\* The inner loop of get_prime on the state t = [j, maybe_prime, at], `at'
\* being "loop" while the loop runs, "done" once its condition failed and
\* Panic when an operation or the assertion j < primes.len() failed.
\* ps[j + 1] is primes.get(j).unwrap().
InnerStep(ps, candidate, t, checks) ==
    LET q == ps[t.j + 1]
    IN  IF t.at /= "loop" THEN t
        ELSE IF ~t.maybe_prime THEN [t EXCEPT !.at = "done"]
        ELSE IF MulOverflows(q, q) /\ checks THEN [t EXCEPT !.at = Panic]
        ELSE IF ~(WrappingMul(q, q) <= candidate) THEN [t EXCEPT !.at = "done"]
        ELSE IF q = 0 THEN [t EXCEPT !.at = Panic]
        ELSE IF ~(t.j + 1 < Len(ps)) THEN [t EXCEPT !.at = Panic]
        ELSE [j |-> t.j + 1,
              maybe_prime |-> ~(q * (candidate \div q) = candidate),
              at |-> "loop"]

RECURSIVE InnerIterate(_, _, _, _, _)
RECURSIVE InnerRun(_, _, _, _, _)
\* Up to k steps of the inner loop.
InnerIterate(ps, candidate, t, checks, k) ==
    IF t.at /= "loop" THEN t
    ELSE IF k = 1 THEN InnerStep(ps, candidate, t, checks)
    ELSE InnerIterate(ps, candidate,
                      InnerIterate(ps, candidate, t, checks, k \div 2),
                      checks, k - (k \div 2))

\* The inner loop run until it ends, k steps and then twice as many at a
\* time.
InnerRun(ps, candidate, t, checks, k) ==
    IF t.at /= "loop" THEN t
    ELSE InnerRun(ps, candidate, InnerIterate(ps, candidate, t, checks, k),
                  checks, 2 * k)

\* The inner loop, from j = 0 and maybe_prime = true.
InnerLoop(ps, candidate, checks) ==
    InnerRun(ps, candidate, [j |-> 0, maybe_prime |-> TRUE, at |-> "loop"],
             checks, 1)

\* The outer loop's condition on the loop state s = [primes, candidate, res].
Looping(s, n) == s.res = Ok /\ Len(s.primes) <= n

\* One iteration of the outer loop.
LoopBody(s, checks) ==
    LET t == InnerLoop(s.primes, s.candidate, checks)
        ps == IF t.maybe_prime THEN Append(s.primes, s.candidate) ELSE s.primes
    IN  IF t.at = Panic THEN [s EXCEPT !.res = Panic]
        ELSE IF AddOverflows(s.candidate, 1) /\ checks
             THEN [primes |-> ps, candidate |-> s.candidate, res |-> Panic]
             ELSE [primes |-> ps, candidate |-> WrappingAdd(s.candidate, 1),
                   res |-> Ok]

RECURSIVE Iterate(_, _, _, _)
\* Up to k iterations of the outer loop, none once its condition fails.
Iterate(s, n, checks, k) ==
    IF ~Looping(s, n) THEN s
    ELSE IF k = 1 THEN LoopBody(s, checks)
    ELSE Iterate(Iterate(s, n, checks, k \div 2), n, checks, k - (k \div 2))

RECURSIVE WhileRun(_, _, _, _)
\* The outer loop run until its condition fails (or a panic), k iterations
\* and then twice as many at a time.
WhileRun(s, n, checks, k) ==
    IF ~Looping(s, n) THEN s
    ELSE WhileRun(Iterate(s, n, checks, k), n, checks, 2 * k)

\* The outer loop.
WhileLoop(s, n, checks) == WhileRun(s, n, checks, 1)

\* get_prime(n) on the cache ps: the cache afterwards, whether the call
\* returned (Ok) or panicked, and the value returned.
get_prime(ps, n, checks) ==
    LET last_prime == ps[Len(ps)]
        s == IF AddOverflows(last_prime, 1) /\ checks
             THEN [primes |-> ps, candidate |-> last_prime, res |-> Panic]
             ELSE WhileLoop([primes |-> ps,
                             candidate |-> WrappingAdd(last_prime, 1),
                             res |-> Ok], n, checks)
    IN  [primes |-> s.primes,
         res |-> s.res,
         ret |-> IF s.res = Panic THEN 0 ELSE s.primes[n + 1]]

---------------------------------------------------------------------------
(* DCHashGenerator (src/donet-core/src/hashgen.rs).  The accumulator       *)
(* `hash' is an i32, held as the integer it denotes; a generator is the    *)
(* record [hash, index, primes, res], res being Panic once a call has      *)
(* panicked.                                                               *)

I32_MAX == 2147483647
I32_MIN == -I32_MAX - 1

\* globals::MAX_PRIME_NUMBERS, a u16.
MAX_PRIME_NUMBERS == 10000

\* DCHashGenerator::default(): #[derive(Default)]
hashgen_default == [hash |-> 0, index |-> 0, primes |-> default, res |-> Ok]

\* i32 arithmetic, as the u16 arithmetic above: an operation whose exact
\* result is no i32 panics with overflow checks and wraps modulo 2^32
\* without them.  p is a widened u16 (0..65535), n any i32.
AddOverflowsI32(a, b) ==
    \/ b > 0 /\ a > I32_MAX - b
    \/ b < 0 /\ a < I32_MIN - b
WrappingAddI32(a, b) ==
    IF b > 0 /\ a > I32_MAX - b THEN (a + I32_MIN) + (b + I32_MIN)
    ELSE IF b < 0 /\ a < I32_MIN - b THEN (a - I32_MIN) + (b - I32_MIN)
    ELSE a + b
MulOverflowsI32(p, n) ==
    /\ p /= 0
    /\ \/ n > I32_MAX \div p
       \/ n < (I32_MIN + (p - 1)) \div p
\* The low 32 bits of p * n, from the bytes of p and the 16-bit halves of
\* n, read back as an i32.
WrappingMulI32(p, n) ==
    LET lo == n % 65536
        hi == (n \div 65536) % 65536
        pl == p % 256
        ph == p \div 256
        A == pl * lo
        B == ph * lo
        C == (pl * hi + 256 * ((ph * hi) % 256)) % 65536
        S == A + 256 * (B % 256)
        rlo == S % 65536
        rhi == ((S \div 65536) + (B \div 256) + C) % 65536
    IN  IF rhi >= 32768 THEN (rhi - 65536) * 65536 + rlo
        ELSE rhi * 65536 + rlo

\* The mutant of add_int that does not recycle the prime table.
add_int_no_modulo(g, number, checks) ==
    LET r == get_prime(g.primes, g.index, checks)
        product == WrappingMulI32(r.ret, number)
    IN  IF ~(g.index < MAX_PRIME_NUMBERS) THEN [g EXCEPT !.res = Panic]
        ELSE IF r.res = Panic
             THEN [g EXCEPT !.primes = r.primes, !.res = Panic]
        ELSE IF checks /\ MulOverflowsI32(r.ret, number)
             THEN [g EXCEPT !.primes = r.primes, !.res = Panic]
        ELSE IF checks /\ AddOverflowsI32(g.hash, product)
             THEN [g EXCEPT !.primes = r.primes, !.res = Panic]
        ELSE [hash |-> WrappingAddI32(g.hash, product),
              index |-> g.index + 1,
              primes |-> r.primes,
              res |-> Ok]

\* DCHashGenerator::add_int(number) on the generator g.
add_int(g, number, checks) ==
    LET r == get_prime(g.primes, g.index, checks)
        product == WrappingMulI32(r.ret, number)
    IN  IF ~(g.index < MAX_PRIME_NUMBERS) THEN [g EXCEPT !.res = Panic]
        ELSE IF r.res = Panic
             THEN [g EXCEPT !.primes = r.primes, !.res = Panic]
        ELSE IF checks /\ MulOverflowsI32(r.ret, number)
             THEN [g EXCEPT !.primes = r.primes, !.res = Panic]
        ELSE IF checks /\ AddOverflowsI32(g.hash, product)
             THEN [g EXCEPT !.primes = r.primes, !.res = Panic]
        ELSE [hash |-> WrappingAddI32(g.hash, product),
              index |-> (g.index + 1) % MAX_PRIME_NUMBERS,
              primes |-> r.primes,
              res |-> Ok]

RECURSIVE add_bytes(_, _, _, _)
\* for byte in blob.into_iter() { self.add_int(i32::from(byte)) }, from the
\* k-th byte on; a panic ends it.
add_bytes(g, blob, k, checks) ==
    IF g.res = Panic \/ k > Len(blob) THEN g
    ELSE add_bytes(add_int(g, blob[k], checks), blob, k + 1, checks)

\* The mutant of add_blob that leaves the length out of the hash.
hashgen_add_blob_no_len(g, blob, checks) == add_bytes(g, blob, 1, checks)

\* The mutant of add_blob that hashes the length and leaves the bytes out.
hashgen_add_blob_len_only(g, blob, checks) == add_int(g, Len(blob), checks)

\* DCHashGenerator::add_blob(blob); blob.len().try_into().unwrap() panics
\* for a length that is no i32.
hashgen_add_blob(g, blob, checks) ==
    IF Len(blob) > I32_MAX THEN [g EXCEPT !.res = Panic]
    ELSE add_bytes(add_int(g, Len(blob), checks), blob, 1, checks)

\* String::into_bytes(): a String is its UTF-8 bytes, handed over as they
\* are.
into_bytes(string) == string

\* DCHashGenerator::add_string(string)
hashgen_add_string(g, string, checks) ==
    hashgen_add_blob(g, into_bytes(string), checks)

\* The mutant of get_hash that converts the value, not the bit pattern (a
\* negative accumulator gives 0).
get_hash_saturating(g) == BvOfInt(IF g.hash < 0 THEN 0 ELSE g.hash, 32)

\* DCHashGenerator::get_hash(): self.hash as u32, a u32 held as its 32 bits.
get_hash(g) == BvOfInt(g.hash, 32)

---------------------------------------------------------------------------
(* The inputs the calls are tried on. *)

\* Lengths that put the buffer within 8 bytes of the cap, and one beyond it.
NearCap == (DG_SIZE_MAX - 8)..(DG_SIZE_MAX + 1)

BoolInputs == BOOLEAN
U8Inputs == {171}
U16Inputs == {BvOfBytes(<<1, 2>>), BvOfBytes(<<255, 255>>)}
U32Inputs == {BvOfBytes(<<1, 2, 3, 4>>), BvOfBytes(<<0, 0, 0, 0>>)}
U64Inputs == {BvOfBytes(<<1, 2, 3, 4, 5, 6, 7, 8>>)}
I8Inputs == {-2}
I16Inputs == {-2}
I32Inputs == {-2}
I64Inputs == {-2}
FloatInputs == {[kind |-> "num", halves |-> 3], [kind |-> "nan", halves |-> 0]}
DataInputs == {VecOf(<<>>), VecOf(<<1, 2, 3>>)} \cup {Fill(k, 0) : k \in NearCap}
\* Another datagram's buffer: one this model can build.
DatagramInputs ==
    {VecOf(<<>>), VecOf(<<171>>), Fill(DG_SIZE_MAX - 1, 0), Fill(DG_SIZE_MAX, 0)}
\* "", "hi!", "h\u{e9}" and a string of 65536 bytes.
StringInputs ==
    {VecOf(<<>>), VecOf(<<104, 105, 33>>), VecOf(<<104, 195, 169>>),
     Fill(DG_SIZE_MAX + 1, 97)}
BlobInputs == {VecOf(<<>>), VecOf(<<9, 8, 7>>), Fill(DG_SIZE_MAX + 1, 1)}

---------------------------------------------------------------------------
(* The Datagram's methods as actions. *)

\* One call: r is what the method computed on the current buffer; n is the
\* number of bytes the call is to add.  A panic ends the program.
Call(op, r, a, n) ==
    /\ ops < MaxOps
    /\ last.res /= Panic
    /\ buffer' = r.buffer
    /\ last' = [op |-> op, res |-> r.res, len |-> VecLen(buffer), n |-> n]
    /\ arg' = a
    /\ ops' = ops + 1
    /\ UNCHANGED <<pgVars, hgVars, psVars>>

AddBool == \E v \in BoolInputs : Call("add_bool", add_bool(buffer, v), v, 1)
AddU8 == \E v \in U8Inputs : Call("add_u8", add_u8(buffer, v), v, 1)
AddU16 == \E v \in U16Inputs : Call("add_u16", add_u16(buffer, v), v, 2)
AddU32 == \E v \in U32Inputs : Call("add_u32", add_u32(buffer, v), v, 4)
AddU64 == \E v \in U64Inputs : Call("add_u64", add_u64(buffer, v), v, 8)
AddI8 == \E v \in I8Inputs : Call("add_i8", add_i8(buffer, v), v, 1)
AddI16 == \E v \in I16Inputs : Call("add_i16", add_i16(buffer, v), v, 2)
AddI32 == \E v \in I32Inputs : Call("add_i32", add_i32(buffer, v), v, 4)
AddI64 == \E v \in I64Inputs : Call("add_i64", add_i64(buffer, v), v, 8)
AddF32 == \E v \in FloatInputs : Call("add_f32", add_f32(buffer, v), v, 4)
AddF64 == \E v \in FloatInputs : Call("add_f64", add_f64(buffer, v), v, 8)
AddSize == \E v \in U16Inputs : Call("add_size", add_size(buffer, v), v, 2)
AddChannel == \E v \in U64Inputs : Call("add_channel", add_channel(buffer, v), v, 8)
AddDoid == \E v \in U32Inputs : Call("add_doid", add_doid(buffer, v), v, 4)
AddZone == \E v \in U32Inputs : Call("add_zone", add_zone(buffer, v), v, 4)
AddLocation ==
    \E p \in U32Inputs, z \in U32Inputs :
        Call("add_location", add_location(buffer, p, z), <<p, z>>, 8)
AddData == \E v \in DataInputs : Call("add_data", add_data(buffer, v), v, VecLen(v))
AddDatagram ==
    \E dg \in DatagramInputs :
        Call("add_datagram", add_datagram(buffer, dg), dg, VecLen(dg))
AddString ==
    \E v \in StringInputs : Call("add_string", add_string(buffer, v), v, VecLen(v))
AddBlob == \E v \in BlobInputs : Call("add_blob", add_blob(buffer, v), v, VecLen(v))

DgInit ==
    /\ buffer = new
    /\ last = [op |-> "new", res |-> Ok, len |-> 0, n |-> 0]
    /\ arg = <<>>
    /\ ops = 0

\* No get_prime call made yet.
NoCall == [n |-> 0, res |-> "none", ret |-> 0]

\* The generator after get_prime(n) on the cache ps.
AfterCall(ps, n, checks) ==
    LET r == get_prime(ps, n, checks)
    IN  [primes |-> r.primes, call |-> [n |-> n, res |-> r.res, ret |-> r.ret]]

\* Indices around the first prime past 251 * 251 (index 6320, the prime
\* 63029) and around the last prime below 2^16 (index 6541, the prime 65521).
EdgeIndices == (6318..6321) \cup (6540..6543)

\* Generators with a long cache, each the state one returned call
\* get_prime(n) leaves a fresh generator in.
WarmIndices == {6318, 6540}
WarmStarts(checks) ==
    {w \in {AfterCall(default, n, checks) : n \in WarmIndices} : w.call.res = Ok}

PgFresh == [primes |-> default, call |-> NoCall]

PgInit ==
    /\ overflow_checks \in BOOLEAN
    /\ \E w \in {PgFresh} \cup WarmStarts(overflow_checks) :
          /\ primes = w.primes
          /\ call = w.call

\* The prime generator left alone.
PgIdle ==
    /\ overflow_checks = FALSE
    /\ primes = default
    /\ call = NoCall

\* PrimeNumberGenerator::get_prime(n).  A panic ends the program.
GetPrime ==
    \E n \in (0..MaxIndex) \cup EdgeIndices :
        /\ call.res /= Panic
        /\ n < Len(primes) + MaxStep
        /\ LET w == AfterCall(primes, n, overflow_checks)
           IN  primes' = w.primes /\ call' = w.call
        /\ UNCHANGED <<overflow_checks, dgVars, hgVars, psVars>>

\* What the hash generators are fed: integers around the overflow of the
\* product and of the sum, and the lengths and bytes of the blobs and
\* strings ("aa", "af", "fc").
HashIntInputs == {-1, 1, 97, 1073741824}
HashBlobInputs == {<<97>>}
HashStringInputs == {<<97, 97>>, <<97, 102>>, <<102, 99>>}

Generators == {1, 2}

\* The calls made on generators that start fresh, or with a long cache.
FeedBudget == IF fed0 = 0 THEN MaxFeeds ELSE MaxWarmFeeds

\* One call on generator g, leaving it as g2.  A panic ends the program.
Feed(g, op, a, g2) ==
    /\ feeds < FeedBudget
    /\ \A h \in Generators : gens[h].res /= Panic
    /\ gens' = [gens EXCEPT ![g] = g2]
    /\ fed' = [fed EXCEPT ![g] = Append(@, [op |-> op, arg |-> a])]
    /\ feeds' = feeds + 1
    /\ UNCHANGED <<fed0, hashed, dgVars, pgVars, psVars>>

HashAddInt ==
    \E g \in Generators, n \in HashIntInputs :
        Feed(g, "add_int", <<n>>, add_int(gens[g], n, overflow_checks))

HashAddBlob ==
    \E g \in Generators, blob \in HashBlobInputs :
        Feed(g, "add_blob", blob, hashgen_add_blob(gens[g], blob, overflow_checks))

HashAddString ==
    \E g \in Generators, string \in HashStringInputs :
        Feed(g, "add_string", string,
             hashgen_add_string(gens[g], string, overflow_checks))

\* DCHashGenerator::get_hash(&self)
HashGetHash ==
    \E g \in Generators :
        /\ feeds < FeedBudget
        /\ \A h \in Generators : gens[h].res /= Panic
        /\ hashed' = [g |-> g, ret |-> get_hash(gens[g])]
        /\ feeds' = feeds + 1
        /\ UNCHANGED <<gens, fed, fed0, dgVars, pgVars, psVars>>

\* A generator that add_int(0) was called on MAX_PRIME_NUMBERS - 1 times:
\* the calls return in a build without overflow checks, and leave the
\* cache get_prime(MAX_PRIME_NUMBERS - 2) leaves.
HashWarmStarts(checks) ==
    IF checks THEN {}
    ELSE {[hash |-> 0,
           index |-> MAX_PRIME_NUMBERS - 1,
           primes |-> get_prime(default, MAX_PRIME_NUMBERS - 2, checks).primes,
           res |-> Ok]}

\* A generator that add_int(0) was called on 6320 times: the calls return in
\* either build (the primes up to index 6319 are below 251 * 251), and leave
\* the cache get_prime(6319) leaves.
HashEdgeStarts(checks) ==
    {[hash |-> 0,
      index |-> 6320,
      primes |-> get_prime(default, 6319, checks).primes,
      res |-> Ok]}

NoHash == [g |-> 0, ret |-> <<>>]

\* Two generators in the same state: fresh, or both after the same calls.
HgInit ==
    /\ overflow_checks \in BOOLEAN
    /\ \E w \in {hashgen_default} \cup HashWarmStarts(overflow_checks) :
          /\ gens = [g \in Generators |-> w]
          /\ fed0 = w.index
    /\ fed = [g \in Generators |-> <<>>]
    /\ feeds = 0
    /\ hashed = NoHash

\* Two generators in the same state: fresh, or both after the same 6320
\* calls.
HgEdgeInit ==
    /\ overflow_checks \in BOOLEAN
    /\ \E w \in {hashgen_default} \cup HashEdgeStarts(overflow_checks) :
          /\ gens = [g \in Generators |-> w]
          /\ fed0 = w.index
    /\ fed = [g \in Generators |-> <<>>]
    /\ feeds = 0
    /\ hashed = NoHash

\* The hash generators left alone.
HgIdle ==
    /\ gens = [g \in Generators |-> hashgen_default]
    /\ fed = [g \in Generators |-> <<>>]
    /\ feeds = 0
    /\ fed0 = 0
    /\ hashed = NoHash

HgNext == HashAddInt \/ HashAddBlob \/ HashAddString \/ HashGetHash

---------------------------------------------------------------------------
(* The parser of src/libdonet/src/dcparser.rs: an LALR(1) parser that      *)
(* plex generates from the grammar.  It reads one token of lookahead,      *)
(* reduces what that token allows and shifts it; on a token the state has  *)
(* no action for, it returns the error at once.  The model follows the     *)
(* productions of python_import, keyword_type, type_definition and         *)
(* distributed_class_type (with atomic fields of integer parameters); its  *)
(* position in them is `st'.  A token is [kind, text], kind being the      *)
(* DCToken variant; a DecimalLiteral also has the i64 it carries.  The     *)
(* productions' values are dropped by their actions (they are `()'); the   *)
(* model keeps them in `built', to tell what was parsed.                   *)

Tok(kind, text) == [kind |-> kind, text |-> text]
EOF == Tok("EOF", "")
None == Tok("None", "")

\* The tokens a type_decl starts with, among the productions followed.
DeclStart == {"From", "Keyword", "DClass", "Typedef"}

\* py_module: the module identifiers joined by '.', and the view suffixes
\* as they are.
RECURSIVE modules_string(_, _, _)
modules_string(ms, i, acc) ==
    IF i > Len(ms) THEN acc
    ELSE modules_string(ms, i + 1,
                        (IF i /= 1 THEN acc \o "." ELSE acc) \o ms[i])
py_module(ms, is) == <<modules_string(ms, 1, ""), is>>

\* DCImport::new(module, symbols)
DCImport(module, symbols) == [module |-> module, symbols |-> symbols]

\* `for (i, module_suffix) in mvs_opt.unwrap().into_iter().enumerate()',
\* from the i-th suffix on (i counts from 0): the imports it adds, and
\* Panic once class_symbols.get(i + 1).unwrap() finds nothing.
RECURSIVE module_suffixes(_, _, _, _, _)
module_suffixes(m, ms, class_symbols, i, added) ==
    IF i >= Len(ms) THEN [imports |-> added, res |-> Ok]
    ELSE IF i + 2 > Len(class_symbols) THEN [imports |-> added, res |-> Panic]
    ELSE module_suffixes(m, ms, class_symbols, i + 1,
             Append(added, DCImport(m \o ms[i + 1], <<class_symbols[i + 2]>>)))

\* The mutant of python_import that leaves the bare class name out of the
\* class symbols.
python_import_suffixed_only(m, ms, c, cs) ==
    LET class_symbols == [i \in 1..Len(cs) |-> c \o cs[i]]
    IN  IF ms /= <<>>
        THEN module_suffixes(m, ms, <<c>> \o class_symbols, 0,
                             <<DCImport(m, <<c>>)>>)
        ELSE [imports |-> <<DCImport(m, class_symbols)>>, res |-> Ok]

\* The mutant of python_import that pairs the i-th module suffix with the
\* i-th class symbol, not with the one after it.
python_import_off_by_one(m, ms, c, cs) ==
    LET class_symbols == <<c>> \o [i \in 1..Len(cs) |-> c \o cs[i]]
    IN  IF ms /= <<>>
        THEN module_suffixes(m, ms, <<c>> \o class_symbols, 0,
                             <<DCImport(m, <<class_symbols[1]>>)>>)
        ELSE [imports |-> <<DCImport(m, class_symbols)>>, res |-> Ok]

\* The action of python_import: py_module[(m, ms)] dclass_import[(c, cs)].
\* The imports it hands to DC_FILE.add_python_import, in order, and whether
\* it returns or panics after them.
python_import(m, ms, c, cs) ==
    LET class_symbols == <<c>> \o [i \in 1..Len(cs) |-> c \o cs[i]]
    IN  IF ms /= <<>>
        THEN module_suffixes(m, ms, class_symbols, 0,
                             <<DCImport(m, <<class_symbols[1]>>)>>)
        ELSE [imports |-> <<DCImport(m, class_symbols)>>, res |-> Ok]

\* A thread that has not called parse.
Idle ==
    [at |-> "idle", file |-> <<>>, input |-> <<>>, pos |-> 1, st |-> "decls",
     modules |-> <<>>, msuffixes |-> <<>>, class |-> "", csuffixes |-> <<>>,
     pending |-> <<>>, then |-> Ok, loaded |-> -1, res |-> "none",
     err |-> None,
     name |-> "", ctx |-> "", lo |-> 0, hi |-> 0, range |-> <<>>,
     field |-> "", param |-> <<>>, params |-> <<>>, reduced |-> <<>>,
     fields |-> <<>>, built |-> <<>>]

\* The lookahead token of the parse p, a shift of it, and the error on it.
Lookahead(p) == IF p.pos > Len(p.input) THEN EOF ELSE p.input[p.pos]
Shift(p, st) == [p EXCEPT !.st = st, !.pos = @ + 1]
SyntaxError(p) ==
    [p EXCEPT !.at = "done", !.res = "Err",
              !.err = IF Lookahead(p).kind = "EOF" THEN None ELSE Lookahead(p)]

\* Option<T>: None and Some(v).
OptNone == <<>>
OptSome(v) == <<v>>

\* a .. b, a std::ops::Range<i64>
Range(a, b) == [start |-> a, end |-> b]

signed_integers == {"Int8T", "Int16T", "Int32T", "Int64T"}
unsigned_integers == {"UInt8T", "UInt16T", "UInt32T", "UInt64T"}
array_data_types ==
    {"Int8ArrayT", "Int16ArrayT", "Int32ArrayT", "UInt8ArrayT", "UInt16ArrayT",
     "UInt32ArrayT", "UInt32UInt8ArrayT"}

\* The tokens after Typedef.
TypedefTypes ==
    {"CharT", "Float64T", "StringT", "BlobT", "Blob32T"}
        \cup signed_integers \cup unsigned_integers \cup array_data_types

\* #[no_reduce(Hyphen)] on `DecimalLiteral(a) => a .. a', and its mutant
\* without the annotation.
no_reduce_array_range_opt_none == {}
no_reduce_array_range_opt == {"Hyphen"}

\* #[no_reduce(Comma)] on `parameters parameter', and its mutant without the
\* annotation.
no_reduce_parameters_none == {}
no_reduce_parameters == {"Comma"}

\* What a declaration leaves: a typedef its alias and opt_array_range, a
\* dclass its name and fields.
Decl(decl, name, range, fields) ==
    [decl |-> decl, name |-> name, range |-> range, fields |-> fields]

\* type_definition: Typedef <type> Identifier(alias) opt_array_range
\* Semicolon.  Without a `[' opt_array_range is None.
type_definition(p) ==
    LET la == Lookahead(p)
        k == la.kind
    IN  CASE p.st = "typedef" ->
                IF k \in TypedefTypes THEN Shift(p, "tdtype") ELSE SyntaxError(p)
          [] p.st = "tdtype" ->
                IF k = "Identifier"
                THEN [Shift(p, "tdalias") EXCEPT !.name = la.text]
                ELSE SyntaxError(p)
          [] p.st = "tdalias" ->
                IF k = "OpenBrackets"
                THEN [Shift(p, "range0") EXCEPT !.ctx = "typedef"]
                ELSE IF k = "Semicolon"
                THEN [Shift(p, "decls") EXCEPT
                         !.built = Append(@, Decl("typedef", p.name, OptNone, <<>>))]
                ELSE SyntaxError(p)
          [] p.st = "tdrange" ->
                IF k = "Semicolon"
                THEN [Shift(p, "decls") EXCEPT
                         !.built = Append(@, Decl("typedef", p.name, p.range, <<>>))]
                ELSE SyntaxError(p)

\* The `]' of an array_range with the value r: in a typedef
\* opt_array_range is Some(r), in a parameter it is the array_param's range.
CloseRange(p, r) ==
    IF p.ctx = "typedef"
    THEN [Shift(p, "tdrange") EXCEPT !.range = OptSome(r)]
    ELSE [Shift(p, "parr") EXCEPT !.param.array_range = OptSome(r)]

\* array_range: OpenBrackets array_range_opt CloseBrackets, array_range_opt
\* being nothing (0 .. 0), DecimalLiteral(a) (a .. a, not reduced on a
\* Hyphen) or DecimalLiteral(min) Hyphen DecimalLiteral(max) (min .. max).
array_range(p) ==
    LET la == Lookahead(p)
        k == la.kind
    IN  CASE p.st = "range0" ->
                IF k = "DecimalLiteral"
                THEN [Shift(p, "range1") EXCEPT !.lo = la.value]
                ELSE IF k = "CloseBrackets" THEN CloseRange(p, Range(0, 0))
                ELSE SyntaxError(p)
          [] p.st = "range1" ->
                IF k = "Hyphen" /\ k \in no_reduce_array_range_opt
                THEN Shift(p, "range2")
                ELSE IF k = "CloseBrackets" THEN CloseRange(p, Range(p.lo, p.lo))
                ELSE SyntaxError(p)
          [] p.st = "range2" ->
                IF k = "DecimalLiteral"
                THEN [Shift(p, "range3") EXCEPT !.hi = la.value]
                ELSE SyntaxError(p)
          [] p.st = "range3" ->
                IF k = "CloseBrackets" THEN CloseRange(p, Range(p.lo, p.hi))
                ELSE SyntaxError(p)

\* A parameter of an integer type, as int_param or array_param leave it:
\* int_range is None or Some(a .. b), array_range is there for an
\* array_param, the name is optional_name.
Parameter(type) ==
    [type |-> type, int_range |-> OptNone, array_range |-> OptNone,
     name |-> OptNone]

\* The lookahead ends the parameter read: `parameters parameter Comma' when
\* it is a Comma (on which `parameters parameter' is not reduced),
\* `parameters parameter' when it is the `)' or the type of the next
\* parameter.  `reduced' lists the productions of `parameters' taken.
parameter(p) ==
    LET k == Lookahead(p).kind
        reduce(production) ==
            [p EXCEPT !.params = Append(@, p.param),
                      !.reduced = Append(@, production)]
    IN  IF k = "Comma"
        THEN IF k \in no_reduce_parameters
             THEN Shift(reduce("parameters parameter Comma"), "params")
             ELSE SyntaxError(reduce("parameters parameter"))
        ELSE IF k = "CloseParenthesis"
        THEN Shift(reduce("parameters parameter"), "fclose")
        ELSE IF k \in signed_integers \cup unsigned_integers
        THEN [Shift(reduce("parameters parameter"), "ptype") EXCEPT
                 !.param = Parameter(k)]
        ELSE SyntaxError(p)

\* parameters, between the parentheses of an atomic field: int_param
\* (<type> int_range optional_name) and array_param (<type> array_range
\* optional_name), int_range being `(' DecimalLiteral(a) Hyphen
\* DecimalLiteral(b) `)' => Some(a .. b).
parameters(p) ==
    LET la == Lookahead(p)
        k == la.kind
    IN  CASE p.st = "params" ->
                IF k \in signed_integers \cup unsigned_integers
                THEN [Shift(p, "ptype") EXCEPT !.param = Parameter(k)]
                ELSE IF k = "CloseParenthesis" THEN Shift(p, "fclose")
                ELSE SyntaxError(p)
          [] p.st = "ptype" ->
                IF k = "OpenParenthesis" THEN Shift(p, "irange0")
                ELSE IF k = "OpenBrackets"
                THEN [Shift(p, "range0") EXCEPT !.ctx = "param"]
                ELSE IF k = "Identifier"
                THEN [Shift(p, "pname") EXCEPT !.param.name = OptSome(la.text)]
                ELSE parameter(p)
          [] p.st = "irange0" ->
                IF k = "DecimalLiteral"
                THEN [Shift(p, "irange1") EXCEPT !.lo = la.value]
                ELSE SyntaxError(p)
          [] p.st = "irange1" ->
                IF k = "Hyphen" THEN Shift(p, "irange2") ELSE SyntaxError(p)
          [] p.st = "irange2" ->
                IF k = "DecimalLiteral"
                THEN [Shift(p, "irange3") EXCEPT !.hi = la.value]
                ELSE SyntaxError(p)
          [] p.st = "irange3" ->
                IF k = "CloseParenthesis"
                THEN [Shift(p, "prange") EXCEPT
                         !.param.int_range = OptSome(Range(p.lo, p.hi))]
                ELSE SyntaxError(p)
          [] p.st \in {"prange", "parr"} ->
                IF k = "Identifier"
                THEN [Shift(p, "pname") EXCEPT !.param.name = OptSome(la.text)]
                ELSE parameter(p)
          [] p.st = "pname" -> parameter(p)

\* An atomic field, as its production leaves it.
Field(name, params, reduced) ==
    [name |-> name, params |-> params, reduced |-> reduced]

\* distributed_class_type: DClass Identifier(id) optional_inheritance (none
\* here) OpenBraces field_declarations CloseBraces Semicolon, the fields
\* being atomic: Identifier(id) OpenParenthesis parameters CloseParenthesis
\* dc_keyword_list Semicolon.
distributed_class_type(p) ==
    LET la == Lookahead(p)
        k == la.kind
    IN  CASE p.st = "dclass" ->
                IF k = "Identifier"
                THEN [Shift(p, "dcname") EXCEPT !.name = la.text, !.fields = <<>>]
                ELSE SyntaxError(p)
          [] p.st = "dcname" ->
                IF k = "OpenBraces" THEN Shift(p, "fields") ELSE SyntaxError(p)
          [] p.st = "fields" ->
                IF k = "Identifier"
                THEN [Shift(p, "fname") EXCEPT !.field = la.text]
                ELSE IF k = "CloseBraces" THEN Shift(p, "dcclose")
                ELSE SyntaxError(p)
          [] p.st = "fname" ->
                IF k = "OpenParenthesis"
                THEN [Shift(p, "params") EXCEPT !.params = <<>>, !.reduced = <<>>]
                ELSE SyntaxError(p)
          [] p.st = "fclose" ->
                IF k = "DCKeyword" THEN Shift(p, "fclose")
                ELSE IF k = "Semicolon"
                THEN [Shift(p, "fields") EXCEPT
                         !.fields = Append(@, Field(p.field, p.params, p.reduced))]
                ELSE SyntaxError(p)
          [] p.st = "dcclose" ->
                IF k = "Semicolon"
                THEN [Shift(p, "decls") EXCEPT
                         !.built = Append(@, Decl("dclass", p.name, OptNone, p.fields))]
                ELSE SyntaxError(p)

\* The reduction of python_import in the parse p.
Reduce(p) ==
    LET pm == py_module(p.modules, p.msuffixes)
        r == python_import(pm[1], pm[2], p.class, p.csuffixes)
    IN  [p EXCEPT !.st = "decls", !.pending = r.imports, !.then = r.res]

\* The parser's move on the lookahead token of the parse p: a shift, the
\* reduction of python_import (the token is then still to be read), the
\* end of the parse, or the error.
Advance(p) ==
    LET la == IF p.pos > Len(p.input) THEN EOF ELSE p.input[p.pos]
        k == la.kind
        shift(st) == [p EXCEPT !.st = st, !.pos = @ + 1]
        error == [p EXCEPT !.at = "done", !.res = "Err",
                           !.err = IF k = "EOF" THEN None ELSE la]
    IN  CASE p.st = "decls" ->
                IF k = "From"
                THEN [shift("from") EXCEPT !.modules = <<>>, !.msuffixes = <<>>,
                                           !.class = "", !.csuffixes = <<>>]
                ELSE IF k = "Keyword" THEN shift("keyword")
                ELSE IF k = "DClass" THEN shift("dclass")
                ELSE IF k = "Typedef" THEN shift("typedef")
                ELSE IF k = "EOF" THEN [p EXCEPT !.at = "done", !.res = Ok]
                ELSE error
          [] p.st \in {"from", "period"} ->
                IF k \in {"Identifier", "Module"}
                THEN [shift("modules") EXCEPT !.modules = Append(@, la.text)]
                ELSE error
          [] p.st = "modules" ->
                IF k = "Period" THEN shift("period")
                ELSE IF k = "ForwardSlash" THEN shift("mslash")
                ELSE IF k = "Import" THEN shift("import")
                ELSE error
          [] p.st = "mslash" ->
                IF k = "Identifier"
                THEN [shift("msuffix") EXCEPT !.msuffixes = Append(@, la.text)]
                ELSE error
          [] p.st = "msuffix" ->
                IF k = "ForwardSlash" THEN shift("mslash")
                ELSE IF k = "Import" THEN shift("import")
                ELSE error
          [] p.st = "import" ->
                IF k = "Identifier"
                THEN [shift("class") EXCEPT !.class = la.text]
                ELSE IF k = "Star" THEN [shift("star") EXCEPT !.class = "*"]
                ELSE error
          [] p.st = "class" ->
                IF k = "ForwardSlash" THEN shift("cslash")
                ELSE IF k \in DeclStart \cup {"EOF"} THEN Reduce(p)
                ELSE error
          [] p.st = "cslash" ->
                IF k = "Identifier"
                THEN [shift("class") EXCEPT !.csuffixes = Append(@, la.text)]
                ELSE error
          [] p.st = "star" ->
                IF k \in DeclStart \cup {"EOF"} THEN Reduce(p) ELSE error
          [] p.st = "keyword" ->
                IF k = "Identifier" THEN shift("kwid") ELSE error
          [] p.st = "kwid" ->
                IF k = "Semicolon" THEN shift("decls") ELSE error
          [] p.st \in {"typedef", "tdtype", "tdalias", "tdrange"} ->
                type_definition(p)
          [] p.st \in {"range0", "range1", "range2", "range3"} ->
                array_range(p)
          [] p.st \in {"dclass", "dcname", "fields", "fname", "fclose", "dcclose"} ->
                distributed_class_type(p)
          [] p.st \in {"params", "ptype", "irange0", "irange1", "irange2",
                       "irange3", "prange", "parr", "pname"} ->
                parameters(p)

\* The text of an import statement, as the pieces the lexer cuts it into:
\* the module identifiers (tokens: a name with a '-' is a Module), the view
\* suffixes of the module, the class ("*" for `import *') and its suffixes.
Stmt(path, msuffixes, class, csuffixes) ==
    [path |-> path, msuffixes |-> msuffixes, class |-> class,
     csuffixes |-> csuffixes]
Id(text) == Tok("Identifier", text)

RECURSIVE Dotted(_)
Dotted(path) ==
    IF Len(path) <= 1 THEN path
    ELSE <<Head(path), Tok("Period", "")>> \o Dotted(Tail(path))

RECURSIVE Slashed(_)
Slashed(suffixes) ==
    IF suffixes = <<>> THEN <<>>
    ELSE <<Tok("ForwardSlash", ""), Id(Head(suffixes))>> \o Slashed(Tail(suffixes))

\* The tokens of one import statement.
StmtTokens(stmt) ==
    <<Tok("From", "")>> \o Dotted(stmt.path) \o Slashed(stmt.msuffixes)
        \o <<Tok("Import", "")>>
        \o (IF stmt.class = "*" THEN <<Tok("Star", "")>>
            ELSE <<Id(stmt.class)>> \o Slashed(stmt.csuffixes))

\* The tokens of a file: those of its import statements, then its tail.
RECURSIVE FileTokens(_, _)
FileTokens(stmts, tail) ==
    IF stmts = <<>> THEN tail
    ELSE StmtTokens(Head(stmts)) \o FileTokens(Tail(stmts), tail)

File(stmts, tail) == [stmts |-> stmts, tail |-> tail]

\* The statements of unit_testing::python_module_imports.
ExampleViews ==
    Stmt(<<Tok("Module", "example-views")>>, <<>>, "DistributedDonut", <<>>)
ViewsClasses ==
    Stmt(<<Id("views")>>, <<>>, "DistributedDonut", <<"AI", "OV">>)
ViewsModules ==
    Stmt(<<Id("views")>>, <<"AI", "OV">>, "DistributedDonut", <<"AI", "OV">>)
GameViews ==
    Stmt(<<Id("game"), Id("views"), Id("Donut")>>, <<"AI">>,
         "DistributedDonut", <<"AI">>)
ViewsStar == Stmt(<<Id("views")>>, <<>>, "*", <<>>)

\* Statements whose suffix counts differ.
MoreModuleSuffixes ==
    Stmt(<<Id("views")>>, <<"AI", "OV">>, "DistributedDonut", <<"AI">>)
MoreClassSuffixes ==
    Stmt(<<Id("views")>>, <<"AI">>, "DistributedDonut", <<"AI", "OV">>)
SuffixedStar == Stmt(<<Id("views")>>, <<"AI">>, "*", <<>>)

\* `keyword p2p;'
KeywordDecl == <<Tok("Keyword", ""), Id("p2p"), Tok("Semicolon", "")>>

\* The tokens of declarations.  A punctuation or type token has no text; a
\* DecimalLiteral carries its i64.
Punct(kind) == Tok(kind, "")
DecimalLiteral(v) == [kind |-> "DecimalLiteral", text |-> "", value |-> v]

\* `[' ts `]', `(' ts `)' and `a-b'
Brackets(ts) == <<Punct("OpenBrackets")>> \o ts \o <<Punct("CloseBrackets")>>
Parens(ts) == <<Punct("OpenParenthesis")>> \o ts \o <<Punct("CloseParenthesis")>>
Bounds(a, b) == <<DecimalLiteral(a), Punct("Hyphen"), DecimalLiteral(b)>>

\* `typedef char <alias><range>;'
TypedefDecl(alias, range) ==
    <<Punct("Typedef"), Punct("CharT"), Id(alias)>> \o range
        \o <<Punct("Semicolon")>>

\* `int8<range> <name>', the range being nothing, `(a-b)' or an array range.
Int8(range, name) == <<Punct("Int8T")>> \o range \o <<Id(name)>>

\* The parameters ps with a comma between them.
RECURSIVE Listed(_)
Listed(ps) ==
    IF ps = <<>> THEN <<>>
    ELSE IF Len(ps) = 1 THEN Head(ps)
    ELSE Head(ps) \o <<Punct("Comma")>> \o Listed(Tail(ps))

\* `<name>(<ps>);' or, with the trailing comma, `<name>(<ps>,);'
AtomicField(name, ps, trailing) ==
    <<Id(name)>>
        \o Parens(Listed(ps) \o IF trailing THEN <<Punct("Comma")>> ELSE <<>>)
        \o <<Punct("Semicolon")>>

\* `dclass <name> { <body>' and what closes it: `};'
DClassDecl(name, body, closing) ==
    <<Punct("DClass"), Id(name), Punct("OpenBraces")>> \o body \o closing
Closing == <<Punct("CloseBraces"), Punct("Semicolon")>>

\* The literals of the ranges.
Literals == {2, 10}

\* `[]', `[a]' and `[a-b]'
ArrayRanges ==
    {Brackets(<<>>)}
        \cup {Brackets(<<DecimalLiteral(a)>>) : a \in Literals}
        \cup {Brackets(Bounds(a, b)) : a \in Literals, b \in Literals}

\* `(a-b)'
IntRanges == {Parens(Bounds(a, b)) : a \in Literals, b \in Literals}

\* The parameter lists of `f': none, two parameters, one parameter with a
\* range.
ParameterLists ==
    {<<>>, <<Int8(<<>>, "a"), Int8(<<>>, "b")>>}
        \cup {<<Int8(r, "x")>> : r \in IntRanges \cup ArrayRanges}

\* The files of declarations: a typedef with each array range and with
\* none, a dclass of one field with each parameter list, with and without
\* the trailing comma, and files that end in an error: an array range cut
\* short, a dclass without its closing brace at the end of the input, and
\* one that another declaration follows.
DeclInputs ==
    {File(<<>>, TypedefDecl("x", r)) : r \in ArrayRanges \cup {<<>>}}
        \cup {File(<<>>, DClassDecl("A", AtomicField("f", ps, trailing), Closing)) :
                 ps \in ParameterLists, trailing \in BOOLEAN}
        \cup {File(<<>>, TypedefDecl("x", Brackets(<<DecimalLiteral(2), Punct("Hyphen")>>))),
              File(<<>>, DClassDecl("A", <<>>, <<>>)),
              File(<<>>, DClassDecl("A", AtomicField("f", <<>>, FALSE), <<>>)),
              File(<<>>, DClassDecl("A", AtomicField("f", <<>>, FALSE), KeywordDecl)),
              File(<<>>, DClassDecl("A", <<>>, DClassDecl("B", <<>>, Closing)))}

\* The files parsed: the unit test's, its statements one by one, the
\* mismatches, and files that end in an error: a statement cut short, a
\* token no declaration starts with, a class followed by a stray token; and
\* the files of declarations.
ParseInputs ==
    {File(<<ExampleViews, ViewsClasses, ViewsModules, GameViews, ViewsStar>>, <<>>),
     File(<<ViewsClasses>>, <<>>),
     File(<<GameViews>>, <<>>),
     File(<<ViewsStar>>, KeywordDecl),
     File(<<MoreModuleSuffixes>>, <<>>),
     File(<<MoreClassSuffixes>>, <<>>),
     File(<<SuffixedStar>>, <<>>),
     File(<<ViewsClasses>>, <<Tok("From", ""), Id("views")>>),
     File(<<ViewsStar>>, <<Tok("Semicolon", "")>>),
     File(<<>>, <<Tok("From", ""), Id("views"), Tok("Import", ""),
                  Id("DistributedDonut"), Tok("Semicolon", "")>>)}
        \cup DeclInputs

\* The files parsed when two threads parse: the short ones.
ThreadInputs ==
    {File(<<ViewsClasses>>, <<>>),
     File(<<GameViews>>, <<>>),
     File(<<ViewsStar>>, KeywordDecl),
     File(<<ViewsClasses>>, <<Tok("From", ""), Id("views")>>)}

\* DCFile::new(): no import.
DCFile_new == [imports |-> <<>>, len |-> 0]

\* DCFile::get_import(n), n counting from 0, and DCFile::get_num_imports()
get_import(dc_file, n) == dc_file.imports[n + 1]
get_num_imports(dc_file) == dc_file.len

\* Thread t calls parse(i), i being the lexer's tokens of a file.
ParseCall ==
    \E t \in threads,
       f \in IF Cardinality(threads) = 1 THEN ParseInputs ELSE ThreadInputs :
        /\ parsers[t].at = "idle"
        /\ parsers' = [parsers EXCEPT ![t] =
                          [Idle EXCEPT !.at = "run", !.file = f,
                                       !.input = FileTokens(f.stmts, f.tail)]]
        /\ UNCHANGED <<DC_FILE, threads, reads, dgVars, pgVars, hgVars>>

\* The parser of thread t reads its next token.
ParseToken ==
    \E t \in threads :
        /\ parsers[t].at = "run"
        /\ parsers[t].pending = <<>>
        /\ parsers' = [parsers EXCEPT ![t] = Advance(@)]
        /\ UNCHANGED <<DC_FILE, threads, reads, dgVars, pgVars, hgVars>>

\* DC_FILE.add_python_import(import) in thread t, first half: the vector's
\* length is read.  (Nothing orders the accesses of two threads to the
\* static mut.)
PushLoad ==
    \E t \in threads :
        /\ parsers[t].at = "run"
        /\ parsers[t].pending /= <<>>
        /\ parsers[t].loaded = -1
        /\ parsers' = [parsers EXCEPT ![t].loaded = DC_FILE.len]
        /\ UNCHANGED <<DC_FILE, threads, reads, dgVars, pgVars, hgVars>>

\* DC_FILE.add_python_import(import) in thread t, second half: the import
\* is written after the length read, and the length set to one more.  After
\* the last import of its statement python_import returns, or panics.
PushStore ==
    \E t \in threads :
        LET p == parsers[t]
            left == Tail(p.pending)
        IN  /\ p.at = "run"
            /\ p.loaded /= -1
            /\ DC_FILE' =
                  [imports |->
                      IF p.loaded < Len(DC_FILE.imports)
                      THEN [DC_FILE.imports EXCEPT ![p.loaded + 1] = Head(p.pending)]
                      ELSE Append(DC_FILE.imports, Head(p.pending)),
                   len |-> p.loaded + 1]
            /\ parsers' = [parsers EXCEPT ![t] =
                  IF left = <<>> /\ p.then = Panic
                  THEN [p EXCEPT !.pending = left, !.loaded = -1,
                                 !.at = "done", !.res = Panic]
                  ELSE [p EXCEPT !.pending = left, !.loaded = -1]]
            /\ UNCHANGED <<threads, reads, dgVars, pgVars, hgVars>>

\* pub static mut DC_FILE: DCFile = DCFile::new(), and no parse called.
PsInit(ts) ==
    /\ DC_FILE = DCFile_new
    /\ parsers = [t \in {1, 2} |-> Idle]
    /\ threads = ts
    /\ reads = <<>>

\* The parser left alone.
PsIdle == PsInit({})

PsNext == ParseCall \/ ParseToken \/ PushLoad \/ PushStore

---------------------------------------------------------------------------
(* read_dc_files of src/libdonet/src/lib.rs.  A file's text is held as the *)
(* tokens the lexer cuts it into, and the text of several files as their   *)
(* tokens one after the other.                                             *)

\* The files there are: which can be opened, which are UTF-8 text, and
\* their text.
Paths ==
    {"views.dc", "keyword.dc", "broken.dc", "suffix.dc", "latin1.dc", "absent.dc"}
Disk(path) ==
    CASE path = "views.dc" ->
            [open |-> TRUE, utf8 |-> TRUE, text |-> StmtTokens(ViewsStar)]
      [] path = "keyword.dc" ->
            [open |-> TRUE, utf8 |-> TRUE, text |-> KeywordDecl]
      [] path = "broken.dc" ->
            [open |-> TRUE, utf8 |-> TRUE, text |-> DClassDecl("A", <<>>, <<>>)]
      [] path = "suffix.dc" ->
            [open |-> TRUE, utf8 |-> TRUE, text |-> StmtTokens(SuffixedStar)]
      [] path = "latin1.dc" -> [open |-> TRUE, utf8 |-> FALSE, text |-> <<>>]
      [] path = "absent.dc" -> [open |-> FALSE, utf8 |-> FALSE, text |-> <<>>]

\* DC_FILE.add_python_import for each of the imports, by one thread.
RECURSIVE add_python_imports(_, _)
add_python_imports(dc_file, imports) ==
    IF imports = <<>> THEN dc_file
    ELSE add_python_imports(
             [imports |-> Append(SubSeq(dc_file.imports, 1, dc_file.len),
                                 Head(imports)),
              len |-> dc_file.len + 1],
             Tail(imports))

\* parse_ run to its end by one thread, from the parse p: the parse at its
\* end and DC_FILE after it.
RECURSIVE parse_(_, _)
parse_(p, dc_file) ==
    IF p.at = "done" THEN [p |-> p, dc_file |-> dc_file]
    ELSE IF p.pending /= <<>>
    THEN parse_(IF p.then = Panic
                THEN [p EXCEPT !.pending = <<>>, !.at = "done", !.res = Panic]
                ELSE [p EXCEPT !.pending = <<>>],
                add_python_imports(dc_file, p.pending))
    ELSE parse_(Advance(p), dc_file)

\* parse(i)
parse(i, dc_file) == parse_([Idle EXCEPT !.at = "run", !.input = i], dc_file)

\* What a read_dc_files call ends in: Ok with the model's imports,
\* DCReadError::ParseError with the parser's token, DCReadError::FileError
\* with the io::Error (here the file it is about and its kind), or a panic;
\* and whether the lexer and the parser were run.
NoFile == [path |-> "", kind |-> ""]
Outcome(res, file, token, model, lexed) ==
    [res |-> res, file |-> file, token |-> token, model |-> model,
     lexed |-> lexed]

\* `for io_result in file_results', from the k-th file on: each file that
\* was opened is read to the end of lexer_input; the first that was not
\* opened, or is not UTF-8, ends the loop with its error.
RECURSIVE read_files(_, _, _)
read_files(file_paths, k, lexer_input) ==
    IF k > Len(file_paths)
    THEN [res |-> Ok, file |-> NoFile, lexer_input |-> lexer_input]
    ELSE LET f == Disk(file_paths[k])
         IN  IF f.open
             THEN IF ~f.utf8
                  THEN [res |-> "FileError",
                        file |-> [path |-> file_paths[k], kind |-> "InvalidData"],
                        lexer_input |-> lexer_input]
                  ELSE read_files(file_paths, k + 1, lexer_input \o f.text)
             ELSE [res |-> "FileError",
                   file |-> [path |-> file_paths[k], kind |-> "NotFound"],
                   lexer_input |-> lexer_input]

\* read_dc_files(file_paths): what it ends in, and DC_FILE after it.
read_dc_files(file_paths, dc_file) ==
    IF file_paths = <<>>
    THEN [out |-> Outcome(Panic, NoFile, None, <<>>, FALSE), dc_file |-> dc_file]
    ELSE LET r == read_files(file_paths, 1, <<>>)
             q == parse(r.lexer_input, dc_file)
         IN  IF r.res /= Ok
             THEN [out |-> Outcome("FileError", r.file, None, <<>>, FALSE),
                   dc_file |-> dc_file]
             ELSE IF q.p.res = Ok
             THEN [out |-> Outcome(Ok, NoFile, None,
                                   SubSeq(q.dc_file.imports, 1, q.dc_file.len),
                                   TRUE),
                   dc_file |-> q.dc_file]
             ELSE IF q.p.res = Panic
             THEN [out |-> Outcome(Panic, NoFile, None, <<>>, TRUE),
                   dc_file |-> q.dc_file]
             ELSE [out |-> Outcome("ParseError", NoFile, q.p.err, <<>>, TRUE),
                   dc_file |-> q.dc_file]

\* The lists of paths given: none, each file alone, and pairs: each of a
\* good file, one that is not text and one that cannot be opened before each
\* of them, and a file with a declaration after a good and after a broken
\* one.
PathLists ==
    {<<>>} \cup {<<path>> : path \in Paths}
        \cup {<<a, b>> : a \in {"views.dc", "latin1.dc", "absent.dc"},
                        b \in {"views.dc", "latin1.dc", "absent.dc"}}
        \cup {<<"views.dc", "keyword.dc">>, <<"broken.dc", "keyword.dc">>}

\* read_dc_files(file_paths).  A panic ends the program.
ReadDcFiles ==
    \E file_paths \in PathLists :
        /\ Len(reads) < MaxReads
        /\ \A i \in DOMAIN reads : reads[i].out.res /= Panic
        /\ LET r == read_dc_files(file_paths, DC_FILE)
           IN  /\ reads' = Append(reads, [paths |-> file_paths, out |-> r.out])
               /\ DC_FILE' = r.dc_file
        /\ UNCHANGED <<parsers, threads, dgVars, pgVars, hgVars>>

DgNext ==
    \/ AddBool \/ AddU8 \/ AddU16 \/ AddU32 \/ AddU64
    \/ AddI8 \/ AddI16 \/ AddI32 \/ AddI64
    \/ AddF32 \/ AddF64
    \/ AddSize \/ AddChannel \/ AddDoid \/ AddZone \/ AddLocation
    \/ AddData \/ AddDatagram \/ AddString \/ AddBlob

\* A datagram being built.
InitDatagram == DgInit /\ PgIdle /\ HgIdle /\ PsIdle
SpecDatagram == InitDatagram /\ [][DgNext]_vars

\* A prime number generator being queried.
InitPrimes == DgInit /\ PgInit /\ HgIdle /\ PsIdle
SpecPrimes == InitPrimes /\ [][GetPrime]_vars

\* One thread that calls parse.
InitParse == DgInit /\ PgIdle /\ HgIdle /\ PsInit({1})
SpecParse == InitParse /\ [][PsNext]_vars

\* Two threads that call parse, at any time.
InitParseThreads == DgInit /\ PgIdle /\ HgIdle /\ PsInit({1, 2})
SpecParseThreads == InitParseThreads /\ [][PsNext]_vars

\* A program that calls read_dc_files.
InitRead == DgInit /\ PgIdle /\ HgIdle /\ PsInit({})
SpecRead == InitRead /\ [][ReadDcFiles]_vars

\* Two hash generators being fed.
InitHash == DgInit /\ primes = default /\ call = NoCall /\ HgInit /\ PsIdle
SpecHash == InitHash /\ [][HgNext]_vars

\* Hash generators fed past the primes below 251 * 251.
InitHashEdge == DgInit /\ primes = default /\ call = NoCall /\ HgEdgeInit /\ PsIdle
SpecHashEdge == InitHashEdge /\ [][HgNext]_vars

---------------------------------------------------------------------------
(* Claims about the Datagram. *)

SingleOps ==
    {"add_bool", "add_u8", "add_u16", "add_u32", "add_u64", "add_i8",
     "add_i16", "add_i32", "add_i64", "add_f32", "add_f64", "add_size",
     "add_channel", "add_doid", "add_zone", "add_data", "add_datagram"}

TaggedOps == {"add_string", "add_blob"}

\* The last n bytes of the buffer.
LastBytes(buf, n) == [i \in 1..n |-> ByteAt(buf, VecLen(buf) - n + i)]

\* The bytes of v.
Bytes(v) == [i \in 1..VecLen(v) |-> ByteAt(v, i)]

\* C1: a single-value or raw append of n bytes on a buffer of length L
\* succeeds and makes the length L+n iff L+n <= 65535; otherwise it returns
\* DatagramOverflow and the buffer is exactly as before.
C1_SingleAppendAtomic ==
    [][last'.op \in SingleOps =>
          IF last'.len + last'.n <= DG_SIZE_MAX
          THEN last'.res = Ok /\ VecLen(buffer') = VecLen(buffer) + last'.n
          ELSE last'.res = DatagramOverflow /\ buffer' = buffer]_vars

\* A single append that brings the total to exactly 65535 was accepted.
C1_Witness ==
    /\ last.op \in SingleOps
    /\ last.n > 0
    /\ last.len + last.n = DG_SIZE_MAX
    /\ last.res = Ok
    /\ VecLen(buffer) = DG_SIZE_MAX

\* C2: add_string / add_blob with a payload of n <= 65535 bytes on a buffer
\* of length L with L + 2 + n > 65535 returns DatagramOverflow and leaves the
\* buffer unchanged, also when the 2-byte tag alone would fit.
C2_TaggedAppendAtomic ==
    [][(/\ last'.op \in TaggedOps
        /\ last'.n <= DG_SIZE_MAX
        /\ last'.len + 2 + last'.n > DG_SIZE_MAX) =>
          (last'.res = DatagramOverflow /\ buffer' = buffer)]_vars

\* C3: add_location on a buffer of length L with L + 8 > 65535 returns
\* DatagramOverflow and leaves the buffer unchanged, also when the parent id
\* alone would fit.
C3_LocationAtomic ==
    [][(last'.op = "add_location" /\ last'.len + 8 > DG_SIZE_MAX) =>
          (last'.res = DatagramOverflow /\ buffer' = buffer)]_vars

\* C4: whatever calls were made, and whether they succeeded or failed, the
\* buffer holds at most 65535 bytes.
C4_LengthCapped == VecLen(buffer) <= DG_SIZE_MAX

\* A call failed on a buffer that is full to the cap.
C4_Witness ==
    /\ VecLen(buffer) = DG_SIZE_MAX
    /\ last.len = DG_SIZE_MAX
    /\ last.res = DatagramOverflow

\* C5: a successful add_u16 / add_u32 / add_u64 of v appends the bytes of v
\* least significant first: appended byte k is (v >> 8k) & 0xff.
C5_LittleEndianBytes ==
    (last.op \in {"add_u16", "add_u32", "add_u64"} /\ last.res = Ok) =>
        \A k \in 0..(last.n - 1) : ByteAt(buffer, last.len + k + 1) = LeByte(arg, k)

\* C6: a successful add_string(s), s of n bytes, grows the buffer by exactly
\* 2 + n and the last n bytes of the buffer are the bytes of s.
C6_StringAppended ==
    (last.op = "add_string" /\ last.res = Ok) =>
        /\ VecLen(buffer) = last.len + 2 + last.n
        /\ LastBytes(buffer, last.n) = Bytes(arg)

\* C7: a successful add_blob(v), v of n bytes, grows the buffer by exactly
\* 2 + n and the last n bytes of the buffer are v in order.
C7_BlobAppended ==
    (last.op = "add_blob" /\ last.res = Ok) =>
        /\ VecLen(buffer) = last.len + 2 + last.n
        /\ LastBytes(buffer, last.n) = Bytes(arg)

\* A non-empty blob was appended to a non-empty buffer.
C7_Witness ==
    /\ last.op = "add_blob"
    /\ last.res = Ok
    /\ last.n > 0
    /\ last.len > 0

\* C8: add_string and add_blob given a payload longer than 65535 bytes
\* return DatagramOverflow, without aborting and without writing a byte.
C8_OversizedPayloadRejected ==
    (last.op \in TaggedOps /\ last.n > DG_SIZE_MAX) =>
        (last.res = DatagramOverflow /\ VecLen(buffer) = last.len)


---------------------------------------------------------------------------
(* Claims about the PrimeNumberGenerator. *)

\* p is a prime (p below 2^16, so a divisor up to its root is below 256).
IsPrime(p) == p >= 2 /\ \A d \in 2..255 : d * d <= p => p % d /= 0

\* p is the (n+1)-th prime, counting from 2.
IsNthPrime(p, n) == IsPrime(p) /\ Cardinality({x \in 2..(p - 1) : IsPrime(x)}) = n

\* C9: get_prime(n) returns the (n+1)-th prime in ascending order from 2,
\* for every 16-bit n and whatever calls were made before.
C9_ReturnsNthPrime ==
    call.res /= "none" => (call.res = Ok /\ IsNthPrime(call.ret, call.n))

StrictlyIncreasing(ps) == \A i \in 1..(Len(ps) - 1) : ps[i] < ps[i + 1]

Max(a, b) == IF a >= b THEN a ELSE b

\* C10: the cache is always strictly increasing from 2; a get_prime(n) that
\* returns leaves it with length max(old length, n+1) and its existing
\* entries as they were; a call with n below the cached length changes
\* nothing and returns the cached entry.
C10_CacheGrowsOrdered ==
    [][call'.res = Ok =>
          /\ primes'[1] = 2
          /\ StrictlyIncreasing(primes')
          /\ Len(primes') = Max(Len(primes), call'.n + 1)
          /\ SubSeq(primes', 1, Len(primes)) = primes
          /\ call'.n < Len(primes) =>
                (primes' = primes /\ call'.ret = primes[call'.n + 1])
      ]_vars


---------------------------------------------------------------------------
(* Claims about the DCHashGenerator. *)

\* The step is a call on generator g that fed it (add_int, add_blob or
\* add_string); FedCall(g) is that call.
FedStep(g) == Len(fed'[g]) = Len(fed[g]) + 1
FedCall(g) == fed'[g][Len(fed'[g])]

\* p * n in wrapping i32 arithmetic, by doubling and adding.
RECURSIVE Times(_, _)
Times(p, n) ==
    IF p = 0 THEN 0
    ELSE LET h == Times(p \div 2, n)
         IN  WrappingAddI32(WrappingAddI32(h, h), IF p % 2 = 1 THEN n ELSE 0)

\* The contributions a sequence of calls makes, in order.
RECURSIVE Flat(_)
Flat(calls) ==
    IF calls = <<>> THEN <<>>
    ELSE LET c == Head(calls)
         IN  (IF c.op = "add_int" THEN c.arg ELSE <<Len(c.arg)>> \o c.arg)
                 \o Flat(Tail(calls))

\* The value of the low k bits of a bit vector (k <= 31).
RECURSIVE BvLow(_, _)
BvLow(bv, k) == IF k = 0 THEN 0 ELSE bv[k - 1] * Pow2(k - 1) + BvLow(bv, k - 1)

\* The 32-bit pattern bv, read as unsigned, is a mod 2^32.
IsU32Of(bv, a) ==
    IF a >= 0 THEN bv[31] = 0 /\ BvLow(bv, 31) = a
    ELSE bv[31] = 1 /\ BvLow(bv, 31) + I32_MIN = a

\* C11: add_int(n) sets the accumulator to accumulator + prime(index) * n in
\* wrapping 32-bit arithmetic, for every accumulator and n: it never aborts
\* on overflow of the product or of the sum.
C11_AddIntWraps ==
    [][\A g \in Generators :
          (FedStep(g) /\ FedCall(g).op = "add_int") =>
              /\ gens'[g].res = Ok
              /\ gens'[g].hash =
                    WrappingAddI32(gens[g].hash,
                        Times(gens'[g].primes[gens[g].index + 1],
                              FedCall(g).arg[1]))
      ]_vars

C13_GetHashUnsigned ==
    [][(feeds' = feeds + 1 /\ fed' = fed) =>
          /\ gens' = gens
          /\ IsU32Of(hashed'.ret, gens[hashed'.g].hash)
      ]_vars

\* get_hash() returned the pattern of a negative accumulator.
C13_Witness ==
    /\ hashed.g \in Generators
    /\ hashed.ret[31] = 1
    /\ gens[hashed.g].hash < 0

\* Two call sequences that differ by one string replaced by another.
OneStringReplaced(a, b) ==
    /\ Len(a) = Len(b)
    /\ \E i \in 1..Len(a) :
          /\ a[i].op = "add_string"
          /\ b[i].op = "add_string"
          /\ a[i].arg /= b[i].arg
          /\ \A j \in 1..Len(a) : j /= i => a[j] = b[j]

\* Two call sequences that differ by two unequal calls exchanged.
TwoExchanged(a, b) ==
    /\ Len(a) = Len(b)
    /\ \E i \in 1..Len(a), j \in 1..Len(a) :
          /\ i < j
          /\ a[i] /= a[j]
          /\ b = [a EXCEPT ![i] = a[j], ![j] = a[i]]

OneContributionChanged(a, b) ==
    /\ Len(a) = Len(b)
    /\ \E i \in 1..Len(a) :
          /\ a[i] /= b[i]
          /\ a[i] - b[i] < 65536
          /\ b[i] - a[i] < 65536
          /\ \A j \in 1..Len(a) : j /= i => a[j] = b[j]

Contributions(g) == fed0 + Len(Flat(fed[g]))

---------------------------------------------------------------------------
(* Claims about the parser. *)

\* The import records of the model, in order.
Imports == SubSeq(DC_FILE.imports, 1, DC_FILE.len)

\* The module path of a statement: its segments joined by '.'.
RECURSIVE JoinDots(_)
JoinDots(path) ==
    IF Len(path) = 1 THEN path[1].text
    ELSE JoinDots(SubSeq(path, 1, Len(path) - 1)) \o "." \o path[Len(path)].text

\* A statement whose suffix counts match: no module suffix, or as many
\* class suffixes as module suffixes.
Matched(stmt) ==
    \/ stmt.msuffixes = <<>>
    \/ stmt.class /= "*" /\ Len(stmt.msuffixes) = Len(stmt.csuffixes)

\* The number of import records of the statements before the k-th.
RECURSIVE Offset(_, _)
Offset(stmts, k) ==
    IF k = 1 THEN 0
    ELSE Offset(stmts, k - 1) + 1 + Len(stmts[k - 1].msuffixes)

\* The parse of thread t returned Ok, on a file of matched statements.
ParsedOk(t) ==
    /\ parsers[t].at = "done"
    /\ parsers[t].res = Ok
    /\ \A k \in 1..Len(parsers[t].file.stmts) : Matched(parsers[t].file.stmts[k])

\* C16: an import statement without module suffixes adds exactly one import
\* record: its module is the path joined by '.', its symbols are the class
\* name and then the class name with each class suffix, or "*" alone for
\* `import *'.
C16_OneRecordWithoutModuleSuffixes ==
    ParsedOk(1) =>
        LET stmts == parsers[1].file.stmts
        IN  /\ \A k \in 1..Len(stmts) :
                  stmts[k].msuffixes = <<>> =>
                      /\ Offset(stmts, k + 1) = Offset(stmts, k) + 1
                      /\ Offset(stmts, k) < get_num_imports(DC_FILE)
                      /\ get_import(DC_FILE, Offset(stmts, k)) =
                            [module |-> JoinDots(stmts[k].path),
                             symbols |->
                                IF stmts[k].class = "*" THEN <<"*">>
                                ELSE <<stmts[k].class>> \o
                                     [i \in 1..Len(stmts[k].csuffixes) |->
                                         stmts[k].class \o stmts[k].csuffixes[i]]]
            /\ (\A k \in 1..Len(stmts) : stmts[k].msuffixes = <<>>)
                  => get_num_imports(DC_FILE) = Len(stmts)

\* `from views import DistributedDonut/AI/OV' was parsed.
C16_Witness ==
    /\ ParsedOk(1)
    /\ parsers[1].file.stmts = <<ViewsClasses>>
    /\ Imports = <<[module |-> "views",
                    symbols |-> <<"DistributedDonut", "DistributedDonutAI",
                                  "DistributedDonutOV">>]>>

\* C17: an import statement with N >= 1 module suffixes and N class
\* suffixes adds N + 1 import records: (module, [class]) and then, for each
\* i, (module + i-th module suffix, [class + i-th class suffix]); a file of
\* import statements gives one record, and one more per module suffix, for
\* each statement.
C17_RecordPerModuleSuffix ==
    ParsedOk(1) =>
        LET stmts == parsers[1].file.stmts
        IN  /\ \A k \in 1..Len(stmts) :
                  LET stmt == stmts[k]
                      N == Len(stmt.msuffixes)
                      at == Offset(stmts, k)
                  IN  N >= 1 =>
                        /\ at + N < get_num_imports(DC_FILE)
                        /\ get_import(DC_FILE, at) =
                              [module |-> JoinDots(stmt.path),
                               symbols |-> <<stmt.class>>]
                        /\ \A i \in 1..N :
                              get_import(DC_FILE, at + i) =
                                 [module |-> JoinDots(stmt.path) \o stmt.msuffixes[i],
                                  symbols |-> <<stmt.class \o stmt.csuffixes[i]>>]
            /\ get_num_imports(DC_FILE) = Offset(stmts, Len(stmts) + 1)

\* The five statements of the unit test were parsed, to 8 imports, those of
\* `from game.views.Donut/AI import DistributedDonut/AI' being the 6th and
\* the 7th.
C17_Witness ==
    /\ ParsedOk(1)
    /\ Len(parsers[1].file.stmts) = 5
    /\ get_num_imports(DC_FILE) = 8
    /\ get_import(DC_FILE, 5) =
          [module |-> "game.views.Donut", symbols |-> <<"DistributedDonut">>]
    /\ get_import(DC_FILE, 6) =
          [module |-> "game.views.DonutAI", symbols |-> <<"DistributedDonutAI">>]

\* C18: the parse of a statement that has module suffixes, and not as many
\* class suffixes, ends with an error result: no panic, no Ok.
C18_MismatchIsError ==
    (/\ parsers[1].at = "done"
     /\ \E k \in 1..Len(parsers[1].file.stmts) : ~Matched(parsers[1].file.stmts[k]))
    => parsers[1].res = "Err"

\* C19: after a parse that failed, the parse target is as it was before the
\* call: no import added during the call is in it.
C19_FailureDiscardsModel ==
    parsers[1].res = "Err" => DC_FILE = DCFile_new

\* The import records of a file of matched statements, as C16 and C17 give
\* them.
RECURSIVE FileImports(_)
FileImports(stmts) ==
    IF stmts = <<>> THEN <<>>
    ELSE LET stmt == Head(stmts)
             module == JoinDots(stmt.path)
         IN  (IF stmt.msuffixes = <<>>
              THEN <<[module |-> module,
                      symbols |-> IF stmt.class = "*" THEN <<"*">>
                                  ELSE <<stmt.class>> \o
                                       [i \in 1..Len(stmt.csuffixes) |->
                                           stmt.class \o stmt.csuffixes[i]]]>>
              ELSE <<[module |-> module, symbols |-> <<stmt.class>>]>> \o
                   [i \in 1..Len(stmt.msuffixes) |->
                       [module |-> module \o stmt.msuffixes[i],
                        symbols |-> <<stmt.class \o stmt.csuffixes[i]>>]])
             \o FileImports(Tail(stmts))

\* C20: when a parse call returns Ok, the model holds the imports of that
\* call's input, and no import of another call.
C20_ParsesIndependent ==
    [][\A t \in threads :
          (parsers[t].at = "run" /\ parsers'[t].at = "done" /\ parsers'[t].res = Ok)
          => SubSeq(DC_FILE'.imports, 1, DC_FILE'.len)
                = FileImports(parsers[t].file.stmts)
      ]_vars

-----------------------------------------------------------------------------
(* The frame of the Datagram's methods. *)

\* a is a prefix of b, both held as runs: the runs of a but the last are the
\* first runs of b, and the last run of a is the start of the run of b at its
\* place.
IsPrefix(a, b) ==
    \/ a = <<>>
    \/ /\ Len(a) <= Len(b)
       /\ \A i \in 1..(Len(a) - 1) : a[i] = b[i]
       /\ a[Len(a)][1] = b[Len(a)][1]
       /\ a[Len(a)][2] <= b[Len(a)][2]

\* C23: every call, whether it returns Ok or DatagramOverflow or panics,
\* leaves the bytes already in the buffer where they were: the buffer before
\* the call is a prefix of the buffer after it, so the length does not
\* decrease and no earlier byte is rewritten.
C23_PrefixPreserved ==
    [][/\ IsPrefix(buffer, buffer')
       /\ VecLen(buffer) <= VecLen(buffer')
       /\ \A i \in {k \in {1, VecLen(buffer)} : 1 <= k /\ k <= VecLen(buffer)} :
             ByteAt(buffer', i) = ByteAt(buffer, i)]_vars

\* A call that failed after it had written: the tag of an add_blob or the
\* parent of an add_location is in the buffer, behind the earlier bytes.
C23_Witness ==
    /\ last.op \in TaggedOps \cup {"add_location"}
    /\ last.res = DatagramOverflow
    /\ last.len > 0
    /\ VecLen(buffer) > last.len

-----------------------------------------------------------------------------
(* The index of the DCHashGenerator. *)

\* The numbers whose product with a 16-bit prime, added to an accumulator
\* in SmallHashes, is far from the ends of i32.
SmallNumbers == {-1, 1}
SmallHashes == (-65536 * 4)..(65536 * 4)

\* C24: the index is below MAX_PRIME_NUMBERS in every state, so the
\* assertion of add_int holds; an add_int (here one whose arithmetic is far
\* from overflowing) returns and moves the index to (index + 1) mod
\* MAX_PRIME_NUMBERS, whatever the number of calls before it, so that the
\* index comes back to 0, where the contribution is multiplied by
\* prime(0) = 2.
C24_IndexCycles ==
    [][\A g \in Generators :
          /\ gens[g].index < MAX_PRIME_NUMBERS
          /\ gens'[g].index < MAX_PRIME_NUMBERS
          /\ (/\ FedStep(g)
              /\ FedCall(g).op = "add_int"
              /\ FedCall(g).arg[1] \in SmallNumbers
              /\ gens[g].hash \in SmallHashes) =>
                 /\ gens'[g].res = Ok
                 /\ gens'[g].index = (gens[g].index + 1) % MAX_PRIME_NUMBERS
                 /\ gens[g].index = 0 =>
                        gens'[g].hash = gens[g].hash + 2 * FedCall(g).arg[1]
      ]_vars

-----------------------------------------------------------------------------
(* The 16-bit arithmetic of get_prime. *)

\* C25: get_prime(i) returns for every i below MAX_PRIME_NUMBERS: it does
\* not panic on the candidate counter, on the product of a cached prime with
\* itself or on the assertion j < primes.len(), and, the candidate not
\* having wrapped, the cache it leaves is increasing.
C25_GetPrimeCompletes ==
    (call.res /= "none" /\ call.n < MAX_PRIME_NUMBERS) =>
        /\ call.res = Ok
        /\ \A i \in 1..(Len(primes) - 1) : primes[i] < primes[i + 1]

-----------------------------------------------------------------------------
(* Claims about the declarations parsed. *)

\* Thread t's parse of the tokens has ended.
ParseOf(t, tokens) == parsers[t].at = "done" /\ parsers[t].input = tokens

\* Thread t's parse returned Ok(()) and built one typedef, of this range.
BuiltTypedef(t, range) ==
    /\ parsers[t].res = Ok
    /\ parsers[t].built = <<Decl("typedef", "x", range, <<>>)>>

\* `dclass A { f(<ps>); };', with or without the trailing comma.
OneField(ps, trailing) == DClassDecl("A", AtomicField("f", ps, trailing), Closing)

\* Thread t's parse returned Ok(()) and built one dclass of one field, with
\* these parameters.
BuiltParameters(t, params) ==
    /\ parsers[t].res = Ok
    /\ Len(parsers[t].built) = 1
    /\ parsers[t].built[1].decl = "dclass"
    /\ Len(parsers[t].built[1].fields) = 1
    /\ parsers[t].built[1].fields[1].params = params

\* The array parameter `int8[..] x' with the range r.
ArrayParameter(r) ==
    [type |-> "Int8T", int_range |-> OptNone, array_range |-> OptSome(r),
     name |-> OptSome("x")]

\* C26: an array range between brackets parses to one range: `[]' to
\* 0 .. 0, `[a]' to a .. a and `[a-b]' to a .. b (a is not reduced to a .. a
\* before the hyphen), in a typedef and in a parameter; a typedef without an
\* array range has None.
C26_ArrayRangeParsed ==
    \A t \in threads :
        /\ ParseOf(t, TypedefDecl("x", <<>>)) => BuiltTypedef(t, OptNone)
        /\ ParseOf(t, TypedefDecl("x", Brackets(<<>>)))
              => BuiltTypedef(t, OptSome(Range(0, 0)))
        /\ ParseOf(t, OneField(<<Int8(Brackets(<<>>), "x")>>, FALSE))
              => BuiltParameters(t, <<ArrayParameter(Range(0, 0))>>)
        /\ \A a \in Literals :
              /\ ParseOf(t, TypedefDecl("x", Brackets(<<DecimalLiteral(a)>>)))
                    => BuiltTypedef(t, OptSome(Range(a, a)))
              /\ ParseOf(t, OneField(<<Int8(Brackets(<<DecimalLiteral(a)>>), "x")>>, FALSE))
                    => BuiltParameters(t, <<ArrayParameter(Range(a, a))>>)
        /\ \A a \in Literals, b \in Literals :
              /\ ParseOf(t, TypedefDecl("x", Brackets(Bounds(a, b))))
                    => BuiltTypedef(t, OptSome(Range(a, b)))
              /\ ParseOf(t, OneField(<<Int8(Brackets(Bounds(a, b)), "x")>>, FALSE))
                    => BuiltParameters(t, <<ArrayParameter(Range(a, b))>>)

\* `typedef char x[2-10];' was parsed, to the one range 2 .. 10.
C26_Witness ==
    \E t \in threads :
        /\ ParseOf(t, TypedefDecl("x", Brackets(Bounds(2, 10))))
        /\ BuiltTypedef(t, OptSome(Range(2, 10)))

\* `int8 a, int8 b' and the parameters it is parsed to.
TwoParameters == <<Int8(<<>>, "a"), Int8(<<>>, "b")>>
IntParameter(name) ==
    [type |-> "Int8T", int_range |-> OptNone, array_range |-> OptNone,
     name |-> OptSome(name)]

\* C27: `f(int8 a, int8 b)' and `f(int8 a, int8 b,)' both parse, to the same
\* two parameters; a parameter that a comma follows is reduced with its
\* comma (`parameters parameter Comma'), the one before the `)' without; and
\* every parameter list parsed is accepted with the trailing comma too.
C27_TrailingCommaAccepted ==
    \A t \in threads :
        /\ \A trailing \in BOOLEAN :
              ParseOf(t, OneField(TwoParameters, trailing)) =>
                 /\ BuiltParameters(t, <<IntParameter("a"), IntParameter("b")>>)
                 /\ parsers[t].built[1].fields[1].reduced =
                       <<"parameters parameter Comma",
                         IF trailing THEN "parameters parameter Comma"
                         ELSE "parameters parameter">>
        /\ \A ps \in ParameterLists \ {<<>>} :
              ParseOf(t, OneField(ps, TRUE)) =>
                 /\ parsers[t].res = Ok
                 /\ Len(parsers[t].built[1].fields[1].params) = Len(ps)

\* `f(int8 a, int8 b,)' was parsed to the two parameters.
C27_Witness ==
    \E t \in threads :
        /\ ParseOf(t, OneField(TwoParameters, TRUE))
        /\ BuiltParameters(t, <<IntParameter("a"), IntParameter("b")>>)

\* The elements of a sequence.
Elements(seq) == {seq[i] : i \in DOMAIN seq}

\* The ranges the parameter q holds.
RangesOf(q) == Elements(q.int_range) \cup Elements(q.array_range)

ReturnedError(t, token) == parsers[t].res = "Err" /\ parsers[t].err = token

\* C21: every parse returns, Ok(()) or the error value with the failing
\* token, and does not abort; a dclass without its closing brace is the
\* error value: with no token when the input ends there, with the token
\* that follows otherwise.
C21_ParseReturns ==
    \A t \in threads :
        /\ parsers[t].at = "done" =>
              /\ parsers[t].res \in {Ok, "Err"}
              /\ parsers[t].res = "Err" =>
                    parsers[t].err = Lookahead(parsers[t])
                        \/ (parsers[t].err = None
                              /\ Lookahead(parsers[t]) = EOF)
        /\ ParseOf(t, DClassDecl("A", <<>>, <<>>)) => ReturnedError(t, None)
        /\ ParseOf(t, DClassDecl("A", AtomicField("f", <<>>, FALSE), <<>>))
              => ReturnedError(t, None)
        /\ ParseOf(t, DClassDecl("A", AtomicField("f", <<>>, FALSE), KeywordDecl))
              => ReturnedError(t, Punct("Keyword"))
        /\ ParseOf(t, DClassDecl("A", <<>>, DClassDecl("B", <<>>, Closing)))
              => ReturnedError(t, Punct("DClass"))


---------------------------------------------------------------------------
(* The outcomes of read_dc_files.                                          *)

\* The places in a list of paths of the files that cannot be opened or are
\* not UTF-8 text.
Failing(paths) ==
    {k \in DOMAIN paths : ~Disk(paths[k]).open \/ ~Disk(paths[k]).utf8}
FirstFailing(paths) ==
    CHOOSE k \in Failing(paths) : \A j \in Failing(paths) : k <= j

C22_OutcomesUnlessPanic ==
    \A i \in DOMAIN reads :
        LET paths == reads[i].paths
            out == reads[i].out
        IN  out.res /= Panic =>
                /\ out.res \in {Ok, "ParseError", "FileError"}
                /\ (out.res = "FileError") <=> (Failing(paths) /= {})
                /\ (Failing(paths) /= {}) =>
                       /\ out.file.path = paths[FirstFailing(paths)]
                       /\ ~out.lexed
                /\ (Failing(paths) = {}) => out.lexed

\* A call given two files that fail ended in the error of the first; a call
\* given no path panicked; a call given a file whose import panics in the
\* parser panicked.
C22_FirstFailureReturned ==
    \E i \in DOMAIN reads :
        /\ reads[i].paths = <<"latin1.dc", "absent.dc">>
        /\ reads[i].out.res = "FileError"
        /\ reads[i].out.file = [path |-> "latin1.dc", kind |-> "InvalidData"]
C22_NoPathsGiven ==
    \E i \in DOMAIN reads : reads[i].paths = <<>> /\ reads[i].out.res = Panic
C22_ParsePanics ==
    \E i \in DOMAIN reads :
        reads[i].paths = <<"suffix.dc">> /\ reads[i].out.res = Panic

=============================================================================
